---- MODULE Spec2Model ----
(***************************************************************************)
(* Model of src/app.py: the Dash callback update_content with the          *)
(* process-wide dataset `data`, the upload pipeline process_uploaded_file, *)
(* the filter engine apply_filters and the four table builders.            *)
(*                                                                         *)
(* A DataFrame is a record [columns, index, rows]: the column names in     *)
(* order, the row labels (positions in the uploaded file) and the rows as  *)
(* tuples aligned with the columns.  Every cell is a sequence of strings:  *)
(* a campaign name is its sequence of characters, a timestamp is           *)
(* <<date, time>>, a missing value is NaN, an unparseable timestamp NaT.   *)
(* An optional value (Python None) is a sequence of length at most one.    *)
(***************************************************************************)
EXTENDS Integers, Sequences, FiniteSets, TLC

VARIABLES
    data,                   \* the global `data`: None or Some(DataFrame)
    active_tab,             \* tabs.active_tab
    filter_country,         \* filter-country.value
    filter_campaign_type,   \* filter-campaign-type.value
    start_date,             \* filter-date.start_date
    end_date,               \* filter-date.end_date
    trigger,                \* ctx.triggered[0] of the last callback run
    response,               \* what the last callback run returned or raised
    fn,                     \* function harness: the function last applied
    out,                    \* function harness: its result (or the argument drawn for it)
    last_success            \* history: the table of the last successful upload

vars == <<data, active_tab, filter_country, filter_campaign_type,
          start_date, end_date, trigger, response, fn, out, last_success>>

ui == <<active_tab, filter_country, filter_campaign_type, start_date, end_date>>

(***************************************************************************)
(* Bounds of the model.                                                    *)
(***************************************************************************)
MaxRows == 2

(***************************************************************************)
(* Python values.                                                          *)
(***************************************************************************)
None == <<>>
Some(x) == <<x>>
NaN == <<"NaN">>
NaT == <<"NaT">>
IsNull(v) == v = NaN \/ v = NaT

Range(s) == {s[i] : i \in 1..Len(s)}

RECURSIVE Filter(_, _)
\* the subsequence of the positions is (ascending) in 1..n that satisfy keep
Filter(n, keep) ==
    IF n = 0 THEN <<>>
    ELSE IF n \in keep THEN Append(Filter(n - 1, keep), n) ELSE Filter(n - 1, keep)

(***************************************************************************)
(* DataFrame primitives.                                                   *)
(***************************************************************************)
Frame(columns, index, rows) == [columns |-> columns, index |-> index, rows |-> rows]

HasCol(df, c) == \E j \in 1..Len(df.columns) : df.columns[j] = c
ColIdx(df, c) == CHOOSE j \in 1..Len(df.columns) : df.columns[j] = c
Cell(df, i, c) == df.rows[i][ColIdx(df, c)]

\* df[mask]: the rows at the positions in keep, labels kept
Take(df, keep) ==
    LET pos == Filter(Len(df.rows), keep)
    IN  Frame(df.columns,
              [k \in 1..Len(pos) |-> df.index[pos[k]]],
              [k \in 1..Len(pos) |-> df.rows[pos[k]]])

\* df[c] = values: assigns column c row by row, appended when new
SetCol(df, c, values) ==
    IF HasCol(df, c)
    THEN Frame(df.columns, df.index,
               [i \in 1..Len(df.rows) |->
                   [j \in 1..Len(df.columns) |->
                       IF df.columns[j] = c THEN values[i] ELSE df.rows[i][j]]])
    ELSE Frame(Append(df.columns, c), df.index,
               [i \in 1..Len(df.rows) |-> Append(df.rows[i], values[i])])

\* df.rename(columns={old: new})
Rename(df, old, new) ==
    Frame([j \in 1..Len(df.columns) |->
              IF df.columns[j] = old THEN new ELSE df.columns[j]],
          df.index, df.rows)

\* series.count(): the number of non-null cells of column c among rows `among`
Count(df, c, among) == Cardinality({i \in among : ~IsNull(Cell(df, i, c))})

(***************************************************************************)
(* Strings.  str.lower(), str.replace('_', ' ') and the `in` substring     *)
(* test work on character sequences.                                       *)
(***************************************************************************)
UpperCase == <<"A","B","C","D","E","F","G","H","I","J","K","L","M",
               "N","O","P","Q","R","S","T","U","V","W","X","Y","Z">>
LowerCase == <<"a","b","c","d","e","f","g","h","i","j","k","l","m",
               "n","o","p","q","r","s","t","u","v","w","x","y","z">>

LowerChar(c) ==
    IF \E k \in 1..Len(UpperCase) : UpperCase[k] = c
    THEN LowerCase[CHOOSE k \in 1..Len(UpperCase) : UpperCase[k] = c]
    ELSE c

\* s.lower()
Lower(s) == [k \in 1..Len(s) |-> LowerChar(s[k])]

\* s.replace('_', ' ')
ReplaceUnderscore(s) == [k \in 1..Len(s) |-> IF s[k] = "_" THEN " " ELSE s[k]]

\* sub in s
Contains(s, sub) ==
    \E k \in 0..(Len(s) - Len(sub)) : SubSeq(s, k + 1, k + Len(sub)) = sub

\* the characters of a string literal of the program
Chars(s) ==
    CASE s = "campaign_name" -> <<"c", "a", "m", "p", "a", "i", "g", "n", "_", "n", "a", "m", "e">>
      [] s = "Campaign Name" -> <<"C", "a", "m", "p", "a", "i", "g", "n", " ", "N", "a", "m", "e">>
      [] s = "campaign" -> <<"c", "a", "m", "p", "a", "i", "g", "n">>
      [] s = "Campaign" -> <<"C", "a", "m", "p", "a", "i", "g", "n">>
      [] s = "My Campaign" -> <<"M", "y", " ", "C", "a", "m", "p", "a", "i", "g", "n">>
      [] s = "Campaign ID" -> <<"C", "a", "m", "p", "a", "i", "g", "n", " ", "I", "D">>
      [] s = "name" -> <<"n", "a", "m", "e">>
      [] s = "customer_external_id" -> <<"c", "u", "s", "t", "o", "m", "e", "r", "_", "e", "x", "t", "e", "r", "n", "a", "l", "_", "i", "d">>
      [] s = "dispatched_at" -> <<"d", "i", "s", "p", "a", "t", "c", "h", "e", "d", "_", "a", "t">>
      [] s = "sent_at" -> <<"s", "e", "n", "t", "_", "a", "t">>
      [] s = "Sent" -> <<"S", "e", "n", "t">>
      [] s = "delivered_at" -> <<"d", "e", "l", "i", "v", "e", "r", "e", "d", "_", "a", "t">>
      [] s = "Delivered" -> <<"D", "e", "l", "i", "v", "e", "r", "e", "d">>
      [] s = "delivered" -> <<"d", "e", "l", "i", "v", "e", "r", "e", "d">>
      [] s = "read_at" -> <<"r", "e", "a", "d", "_", "a", "t">>
      [] s = "Read" -> <<"R", "e", "a", "d">>
      [] s = "button_clicks" -> <<"b", "u", "t", "t", "o", "n", "_", "c", "l", "i", "c", "k", "s">>
      [] s = "Button Clicks" -> <<"B", "u", "t", "t", "o", "n", " ", "C", "l", "i", "c", "k", "s">>
      [] s = "link_clicks" -> <<"l", "i", "n", "k", "_", "c", "l", "i", "c", "k", "s">>
      [] s = "Link Clicks" -> <<"L", "i", "n", "k", " ", "C", "l", "i", "c", "k", "s">>
      [] s = "campaign_type" -> <<"c", "a", "m", "p", "a", "i", "g", "n", "_", "t", "y", "p", "e">>
      [] s = "country_name" -> <<"c", "o", "u", "n", "t", "r", "y", "_", "n", "a", "m", "e">>
      [] s = "United States" -> <<"U", "n", "i", "t", "e", "d", " ", "S", "t", "a", "t", "e", "s">>
      [] s = "United Kingdom" -> <<"U", "n", "i", "t", "e", "d", " ", "K", "i", "n", "g", "d", "o", "m">>
      [] s = "Unknown" -> <<"U", "n", "k", "n", "o", "w", "n">>
      [] s = "Total" -> <<"T", "o", "t", "a", "l">>
      [] s = "auto" -> <<"a", "u", "t", "o">>
      [] s = "cpc" -> <<"c", "p", "c">>
      [] s = "top" -> <<"t", "o", "p">>
      [] s = "up" -> <<"u", "p">>
      [] s = "gem" -> <<"g", "e", "m">>
      [] s = "dt" -> <<"d", "t">>

(***************************************************************************)
(* get_country_name.  phonenumbers.parse and region_code_for_number are    *)
(* the library's results on the identifiers of the model: a region code,   *)
(* "" for a number of no region, "NumberParseException" for a parse error. *)
(***************************************************************************)
RegionCode(phone_number) ==
    CASE phone_number = <<"+", "14155552671">> -> "US"
      [] phone_number = <<"+", "442071838750">> -> "GB"
      [] phone_number = <<"+", "1234">> -> ""
      [] OTHER -> "NumberParseException"

\* pycountry.countries.get(alpha_2=country_code).name
CountryOfRegion(country_code) ==
    CASE country_code = "US" -> Chars("United States")
      [] country_code = "GB" -> Chars("United Kingdom")

get_country_name(phone_number) ==
    LET number == IF Len(phone_number) > 0 /\ phone_number[1] = "+"
                  THEN phone_number
                  ELSE <<"+">> \o phone_number
        country_code == RegionCode(number)
    IN  IF country_code = "NumberParseException" THEN Chars("Unknown")
        ELSE IF country_code # "" THEN CountryOfRegion(country_code)
        ELSE Chars("Unknown")

(***************************************************************************)
(* Timestamps.  pd.to_datetime(errors='coerce') on the date strings of the *)
(* model: <<date>> or <<date, time>> parses, anything else is NaT.         *)
(***************************************************************************)
Dates == <<"2024-01-01", "2024-01-02", "2024-01-03">>
Times == <<"00:00:00", "10:30:00", "23:59:00">>

DayNum(d) == CHOOSE k \in 1..Len(Dates) : Dates[k] = d
TimeNum(t) == CHOOSE k \in 1..Len(Times) : Times[k] = t

to_datetime(v) ==
    IF Len(v) = 1 /\ v[1] \in Range(Dates) THEN <<v[1], Times[1]>>
    ELSE IF Len(v) = 2 /\ v[1] \in Range(Dates) /\ v[2] \in Range(Times) THEN v
    ELSE NaT

\* timestamp order
TsLeq(a, b) ==
    \/ DayNum(a[1]) < DayNum(b[1])
    \/ DayNum(a[1]) = DayNum(b[1]) /\ TimeNum(a[2]) <= TimeNum(b[2])

\* the rows with a dispatched_at: min() and max() skip the null ones
Dispatched(df) == {i \in 1..Len(df.rows) : ~IsNull(Cell(df, i, "dispatched_at"))}

\* series.min().date() / series.max().date() of dispatched_at, None when there is none
MinDate(df) ==
    IF Dispatched(df) = {} THEN None
    ELSE LET i == CHOOSE i \in Dispatched(df) : \A k \in Dispatched(df) :
                      TsLeq(Cell(df, i, "dispatched_at"), Cell(df, k, "dispatched_at"))
         IN  Some(Cell(df, i, "dispatched_at")[1])
MaxDate(df) ==
    IF Dispatched(df) = {} THEN None
    ELSE LET i == CHOOSE i \in Dispatched(df) : \A k \in Dispatched(df) :
                      TsLeq(Cell(df, k, "dispatched_at"), Cell(df, i, "dispatched_at"))
         IN  Some(Cell(df, i, "dispatched_at")[1])

(***************************************************************************)
(* process_uploaded_file.  A call's result is [ok, val, exc]: the value    *)
(* returned or the exception raised.                                       *)
(***************************************************************************)
Ok(val) == [ok |-> TRUE, val |-> val, exc |-> <<>>]
Raise(type, message) ==
    [ok |-> FALSE, val |-> <<>>, exc |-> <<type, message>>]

column_mapping ==
    << <<"Button Clicks", "button_clicks">>,
       <<"Delivered", "delivered">>,
       <<"Link Clicks", "link_clicks">>,
       <<"Read", "read_at">>,
       <<"Sent", "sent_at">>,
       <<"Campaign Name", "campaign_name">>,
       <<"campaign", "campaign_name">>,
       <<"Campaign", "campaign_name">> >>

RECURSIVE ApplyMapping(_, _)
\* the loop over column_mapping.items(): the first k entries applied in order
ApplyMapping(df, k) ==
    IF k = 0 THEN df
    ELSE LET prev == ApplyMapping(df, k - 1)
         IN  IF HasCol(prev, column_mapping[k][1])
             THEN Rename(prev, column_mapping[k][1], column_mapping[k][2])
             ELSE prev

\* mutant: the fallback renames the last column that mentions a campaign
ResolveCampaignName_LastMatch(df) ==
    IF HasCol(df, "campaign_name") THEN Ok(df)
    ELSE LET campaign_cols == {j \in 1..Len(df.columns) :
                 Contains(Lower(Chars(df.columns[j])), Chars("campaign"))}
         IN  IF campaign_cols # {}
             THEN Ok(Rename(df,
                            df.columns[CHOOSE j \in campaign_cols :
                                           \A k \in campaign_cols : j >= k],
                            "campaign_name"))
             ELSE Raise("ValueError",
                        "Could not find campaign name column in the CSV file")

\* the campaign_name check and its fallback
ResolveCampaignName(df) ==
    IF HasCol(df, "campaign_name") THEN Ok(df)
    ELSE LET campaign_cols == {j \in 1..Len(df.columns) :
                 Contains(Lower(Chars(df.columns[j])), Chars("campaign"))}
         IN  IF campaign_cols # {}
             THEN Ok(Rename(df,
                            df.columns[CHOOSE j \in campaign_cols :
                                           \A k \in campaign_cols : j <= k],
                            "campaign_name"))
             ELSE Raise("ValueError",
                        "Could not find campaign name column in the CSV file")

commercial_keywords ==
    << <<"c","p","c">>, <<"d","t">>, <<"g","e","m">>,
       <<"t","o","p"," ","u","p">>, <<"t","o","p","_","u","p">>,
       <<"t","o","p","u","p">>,
       <<"a","u","t","o","m","a","t","i","o","n">> >>

\* str(campaign_name): a missing name prints as 'nan'
Str(v) == IF v = NaN THEN <<"n","a","n">> ELSE v

\* mutant: the keywords matched without lower-casing the name
is_commercial_campaign_CaseSensitive(campaign_name) ==
    LET name == Str(campaign_name)
    IN  \E k \in 1..Len(commercial_keywords) :
            Contains(ReplaceUnderscore(name), commercial_keywords[k])

is_commercial_campaign(campaign_name) ==
    LET name == Lower(Str(campaign_name))
    IN  \E k \in 1..Len(commercial_keywords) :
            Contains(ReplaceUnderscore(name), commercial_keywords[k])

CampaignType(campaign_name) ==
    IF is_commercial_campaign(campaign_name)
    THEN <<"Commercial">> ELSE <<"Non-Commercial">>

\* astype(str) of a customer_external_id
AsTypeStr(v) == IF v = NaN THEN <<"nan">> ELSE v

\* fillna('Unknown')
FillUnknown(v) == IF IsNull(v) THEN Chars("Unknown") ELSE v

\* mutant: the rows with an unparseable dispatched_at are kept
DropNaDispatched_Keep(df) == df

\* df.dropna(subset=['dispatched_at'])
DropNaDispatched(df) ==
    Take(df, {i \in 1..Len(df.rows) : ~IsNull(Cell(df, i, "dispatched_at"))})

process_uploaded_file(contents) ==
    LET named == ResolveCampaignName(ApplyMapping(contents, Len(column_mapping)))
    IN  IF ~named.ok THEN named
        ELSE LET typed == SetCol(named.val, "campaign_type",
                              [i \in 1..Len(named.val.rows) |->
                                  CampaignType(Cell(named.val, i, "campaign_name"))])
             IN  IF ~HasCol(typed, "customer_external_id")
                 THEN Raise("KeyError", "customer_external_id")
                 ELSE LET located == SetCol(typed, "country_name",
                              [i \in 1..Len(typed.rows) |->
                                  FillUnknown(get_country_name(
                                      AsTypeStr(Cell(typed, i, "customer_external_id"))))])
                      IN  IF ~HasCol(located, "dispatched_at")
                          THEN Raise("KeyError", "dispatched_at")
                          ELSE Ok(DropNaDispatched(
                                   SetCol(located, "dispatched_at",
                                          [i \in 1..Len(located.rows) |->
                                              to_datetime(Cell(located, i, "dispatched_at"))])))

(***************************************************************************)
(* Ordering of strings (Python compares by code point) and sorting.        *)
(***************************************************************************)
Ascii == <<" ",
           "A","B","C","D","E","F","G","H","I","J","K","L","M",
           "N","O","P","Q","R","S","T","U","V","W","X","Y","Z",
           "_",
           "a","b","c","d","e","f","g","h","i","j","k","l","m",
           "n","o","p","q","r","s","t","u","v","w","x","y","z">>

Ord(c) == CHOOSE k \in 1..Len(Ascii) : Ascii[k] = c

RECURSIVE StrLess(_, _)
StrLess(a, b) ==
    IF Len(b) = 0 THEN FALSE
    ELSE IF Len(a) = 0 THEN TRUE
    ELSE IF a[1] = b[1] THEN StrLess(Tail(a), Tail(b))
    ELSE Ord(a[1]) < Ord(b[1])

RECURSIVE Sorted(_)
\* sorted(S): the strings of S in ascending order
Sorted(S) ==
    IF S = {} THEN <<>>
    ELSE LET m == CHOOSE x \in S : \A y \in S \ {x} : StrLess(x, y)
         IN  <<m>> \o Sorted(S \ {m})

\* the group keys of df.groupby(c): the distinct non-null values, sorted
GroupKeys(df, c) ==
    Sorted({Cell(df, i, c) : i \in {i \in 1..Len(df.rows) : ~IsNull(Cell(df, i, c))}})

\* the rows of the group of key
Group(df, c, key) == {i \in 1..Len(df.rows) : Cell(df, i, c) = key}

\* the names of `wanted` that df lacks, in order
MissingCols(df, wanted) ==
    LET pos == Filter(Len(wanted), {k \in 1..Len(wanted) : ~HasCol(df, wanted[k])})
    IN  [k \in 1..Len(pos) |-> wanted[pos[k]]]

(***************************************************************************)
(* Dash components returned by the callback.                               *)
(***************************************************************************)
Div(text) == [kind |-> "Div", id |-> "", text |-> text, columns |-> <<>>, rows |-> <<>>]
DataTable(id, columns, rows) ==
    [kind |-> "DataTable", id |-> id, text |-> <<>>, columns |-> columns, rows |-> rows]
no_update == [kind |-> "no_update", id |-> "", text |-> <<>>, columns |-> <<>>, rows |-> <<>>]

(***************************************************************************)
(* The table builders.                                                     *)
(***************************************************************************)
create_data_table(df) == Ok(DataTable("data-table", df.columns, df.rows))

SummaryCols ==
    <<"dispatched_at", "sent_at", "delivered_at", "read_at", "button_clicks", "link_clicks">>
SummaryLabels ==
    <<"Dispatched", "Sent", "Delivered", "Read", "Button Clicks", "Link Clicks">>

create_summary_table(df) ==
    IF MissingCols(df, <<"campaign_name">> \o SummaryCols) # <<>>
    THEN Raise("KeyError", MissingCols(df, <<"campaign_name">> \o SummaryCols))
    ELSE LET keys == GroupKeys(df, "campaign_name")
         IN  Ok(DataTable("summary-table",
                 <<"campaign_name">> \o SummaryLabels,
                 [g \in 1..Len(keys) |->
                     <<keys[g]>> \o
                     [j \in 1..Len(SummaryCols) |->
                         Count(df, SummaryCols[j], Group(df, "campaign_name", keys[g]))]]))

\* 0.04 USD per delivered message, in cents
CostPerMessage == 4

RECURSIVE SumCol(_, _, _)
\* rows[1..n][j] summed
SumCol(rows, j, n) == IF n = 0 THEN 0 ELSE SumCol(rows, j, n - 1) + rows[n][j]

\* f"${x:.2f}" of an amount in cents
FormatUSD(cents) ==
    <<"$", ToString(cents \div 100), ".",
      ToString((cents % 100) \div 10), ToString(cents % 10)>>

\* mutant: the cost table built over every campaign, Commercial ones included
CostRows_AllCampaigns(df) ==
    LET keys == GroupKeys(df, "campaign_name")
        cost_df == [g \in 1..Len(keys) |->
                       LET delivered == Count(df, "delivered_at",
                                              Group(df, "campaign_name", keys[g]))
                       IN  <<keys[g], delivered, delivered * 4>>]
        totals == <<Chars("Total"), SumCol(cost_df, 2, Len(cost_df)),
                    SumCol(cost_df, 3, Len(cost_df))>>
    IN  Append(cost_df, totals)

\* cost_df before formatting: <<campaign_name, Delivered Messages, Cost (USD)>>
\* per Non-Commercial campaign, then the totals row
CostRows(df) ==
    LET non_commercial ==
            Take(df, {i \in 1..Len(df.rows) :
                         Cell(df, i, "campaign_type") = <<"Non-Commercial">>})
        keys == GroupKeys(non_commercial, "campaign_name")
        cost_df == [g \in 1..Len(keys) |->
                       LET delivered == Count(non_commercial, "delivered_at",
                                              Group(non_commercial, "campaign_name", keys[g]))
                       IN  <<keys[g], delivered, delivered * CostPerMessage>>]
        totals == <<Chars("Total"), SumCol(cost_df, 2, Len(cost_df)),
                    SumCol(cost_df, 3, Len(cost_df))>>
    IN  Append(cost_df, totals)

create_cost_analysis_table(df) ==
    IF MissingCols(df, <<"campaign_type", "campaign_name", "delivered_at">>) # <<>>
    THEN Raise("KeyError",
               MissingCols(df, <<"campaign_type", "campaign_name", "delivered_at">>))
    ELSE Ok(DataTable("cost-table",
                <<"campaign_name", "Delivered Messages", "Cost (USD)">>,
                [g \in 1..Len(CostRows(df)) |->
                    <<CostRows(df)[g][1], CostRows(df)[g][2],
                      FormatUSD(CostRows(df)[g][3])>>]))

\* (a / b * 100).round(2) as a float: hundredths of a percent, or nan / inf
Rate(a, b) ==
    IF b = 0 THEN (IF a = 0 THEN <<"nan">> ELSE <<"inf">>)
    ELSE <<"num", (2 * a * 10000 + b) \div (2 * b)>>

\* f"{x}%": the float's repr and a percent sign
FormatRate(x) ==
    IF x[1] # "num" THEN <<x[1], "%">>
    ELSE IF x[2] % 10 = 0
         THEN <<ToString(x[2] \div 100), ".", ToString((x[2] % 100) \div 10), "%">>
         ELSE <<ToString(x[2] \div 100), ".", ToString((x[2] % 100) \div 10),
                ToString(x[2] % 10), "%">>

RECURSIVE SortDesc(_, _)
\* sort_values(col j, ascending=False), equal keys in their given order
SortDesc(rows, j) ==
    IF Len(rows) = 0 THEN <<>>
    ELSE LET m == CHOOSE k \in 1..Len(rows) :
                      /\ \A l \in 1..Len(rows) : rows[l][j] <= rows[k][j]
                      /\ \A l \in 1..(k - 1) : rows[l][j] < rows[k][j]
         IN  <<rows[m]>> \o
             SortDesc(SubSeq(rows, 1, m - 1) \o SubSeq(rows, m + 1, Len(rows)), j)

CountryCols ==
    <<"dispatched_at", "delivered_at", "read_at", "button_clicks", "link_clicks">>

\* country_df with the two rate columns, before formatting and sorting
CountryRows(df) ==
    LET keys == GroupKeys(df, "country_name")
    IN  [g \in 1..Len(keys) |->
            LET n == [j \in 1..Len(CountryCols) |->
                         Count(df, CountryCols[j], Group(df, "country_name", keys[g]))]
            IN  <<keys[g]>> \o n \o <<Rate(n[2], n[1]), Rate(n[3], n[2])>>]

create_country_analysis_table(df) ==
    IF MissingCols(df, <<"country_name">> \o CountryCols) # <<>>
    THEN Raise("KeyError", MissingCols(df, <<"country_name">> \o CountryCols))
    ELSE Ok(DataTable("country-table",
                <<"Country", "Dispatched", "Delivered", "Read", "Button Clicks",
                  "Link Clicks", "Delivery Rate", "Read Rate">>,
                SortDesc([g \in 1..Len(CountryRows(df)) |->
                             [j \in 1..8 |->
                                 IF j >= 7 THEN FormatRate(CountryRows(df)[g][j])
                                 ELSE CountryRows(df)[g][j]]], 2)))

(***************************************************************************)
(* create_product_summary_cards.                                           *)
(***************************************************************************)
\* re.search(a + '.*' + b, s)
ContainsThen(s, a, b) ==
    \E k \in 0..(Len(s) - Len(a)) :
        /\ SubSeq(s, k + 1, k + Len(a)) = a
        /\ Contains(SubSeq(s, k + Len(a) + 1, Len(s)), b)

products ==
    << <<"CPC", Chars("auto"), Chars("cpc")>>,
       <<"Top Up", Chars("top"), Chars("up")>>,
       <<"Gem", Chars("auto"), Chars("gem")>>,
       <<"DT", Chars("auto"), Chars("dt")>> >>

\* f"{delivery_rate:.1f}%", the rate in tenths of a percent
FormatRate1(tenths) ==
    <<ToString(tenths \div 10), ".", ToString(tenths % 10), "%">>

create_product_summary_cards(df) ==
    IF MissingCols(df, <<"campaign_name", "dispatched_at", "delivered_at">>) # <<>>
    THEN Raise("KeyError",
               MissingCols(df, <<"campaign_name", "dispatched_at", "delivered_at">>)[1])
    ELSE Ok([p \in 1..Len(products) |->
                LET mask == {i \in 1..Len(df.rows) :
                                /\ ~IsNull(Cell(df, i, "campaign_name"))
                                /\ ContainsThen(Lower(Cell(df, i, "campaign_name")),
                                                products[p][2], products[p][3])}
                    dispatched == Count(df, "dispatched_at", mask)
                    delivered == Count(df, "delivered_at", mask)
                    delivery_rate == IF dispatched > 0
                                     THEN (2 * delivered * 1000 + dispatched)
                                              \div (2 * dispatched)
                                     ELSE 0
                IN  <<products[p][1], dispatched, delivered, FormatRate1(delivery_rate)>>])

(***************************************************************************)
(* apply_filters.                                                          *)
(***************************************************************************)
\* Python truth of an optional list or string: None and the empty one are false
Truthy(x) == x # None /\ Len(x[1]) > 0

\* pd.to_datetime(s).date() of a date-picker string
ToDate(s) == DayNum(s)

\* mutant: the end of the range compared as a timestamp (midnight), not as a date
apply_filters_EndAtMidnight(df, country, campaign_type, start, end) ==
    LET by_country ==
            IF Truthy(country)
            THEN Take(df, {i \in 1..Len(df.rows) :
                              Cell(df, i, "country_name") \in Range(country[1])})
            ELSE df
        by_type ==
            IF Truthy(campaign_type)
            THEN Take(by_country, {i \in 1..Len(by_country.rows) :
                              Cell(by_country, i, "campaign_type") \in Range(campaign_type[1])})
            ELSE by_country
    IN  IF start # None /\ end # None
        THEN Take(by_type, {i \in 1..Len(by_type.rows) :
                     /\ DayNum(Cell(by_type, i, "dispatched_at")[1]) >= ToDate(start[1])
                     /\ TsLeq(Cell(by_type, i, "dispatched_at"), <<end[1], Times[1]>>)})
        ELSE by_type

apply_filters(df, country, campaign_type, start, end) ==
    LET by_country ==
            IF Truthy(country)
            THEN Take(df, {i \in 1..Len(df.rows) :
                              Cell(df, i, "country_name") \in Range(country[1])})
            ELSE df
        by_type ==
            IF Truthy(campaign_type)
            THEN Take(by_country, {i \in 1..Len(by_country.rows) :
                              Cell(by_country, i, "campaign_type") \in Range(campaign_type[1])})
            ELSE by_country
    IN  IF start # None /\ end # None
        THEN Take(by_type, {i \in 1..Len(by_type.rows) :
                     /\ DayNum(Cell(by_type, i, "dispatched_at")[1]) >= ToDate(start[1])
                     /\ DayNum(Cell(by_type, i, "dispatched_at")[1]) <= ToDate(end[1])})
        ELSE by_type

(***************************************************************************)
(* The uploaded files of the model: pd.read_csv of a header and at most    *)
(* MaxRows rows drawn from a catalogue of raw rows.                        *)
(***************************************************************************)
Headers ==
    << <<"campaign_name", "customer_external_id", "dispatched_at", "sent_at",
         "delivered_at", "read_at", "button_clicks", "link_clicks">>,
       <<"Campaign Name", "customer_external_id", "dispatched_at", "Sent",
         "Delivered", "Read", "Button Clicks", "Link Clicks">>,
       <<"My Campaign", "customer_external_id", "dispatched_at", "delivered_at">>,
       <<"name", "customer_external_id", "dispatched_at", "delivered_at">> >>

RawRow(campaign, customer, dispatched, sent, delivered, read, button, link) ==
    [campaign |-> campaign, customer |-> customer, dispatched |-> dispatched,
     sent |-> sent, delivered |-> delivered, read |-> read,
     button |-> button, link |-> link]

RawRows ==
    << RawRow(<<"A","u","t","o","_","C","P","C">>, <<"+", "14155552671">>,
              <<"2024-01-01", "10:30:00">>,
              <<"2024-01-01">>, <<"2024-01-01">>, <<"2024-01-01">>, <<"1">>, NaN),
       RawRow(<<"P","r","o","m","o">>, <<"abc">>,
              <<"2024-01-02">>,
              <<"2024-01-02">>, NaN, NaN, NaN, NaN),
       RawRow(<<"S","a","l","e">>, NaN,
              <<"not a date">>,
              NaN, NaN, NaN, NaN, NaN),
       RawRow(<<"S","a","l","e">>, <<"442071838750">>,
              <<"2024-01-02", "23:59:00">>,
              <<"2024-01-02">>, <<"2024-01-02">>, NaN, NaN, <<"1">>),
       RawRow(<<"T","o","p","_","U","p">>, <<"+", "1234">>,
              <<"2024-01-03">>,
              <<"2024-01-03">>, NaN, <<"2024-01-03">>, NaN, NaN) >>

\* the cell of raw row r under the column named c
CsvCell(c, r) ==
    CASE c \in {"campaign_name", "Campaign Name", "My Campaign", "name",
                "Campaign"} -> r.campaign
      [] c = "Campaign ID" -> r.button
      [] c = "customer_external_id" -> r.customer
      [] c = "dispatched_at" -> r.dispatched
      [] c \in {"sent_at", "Sent"} -> r.sent
      [] c \in {"delivered_at", "Delivered"} -> r.delivered
      [] c \in {"read_at", "Read"} -> r.read
      [] c \in {"button_clicks", "Button Clicks"} -> r.button
      [] c \in {"link_clicks", "Link Clicks"} -> r.link

\* pd.read_csv: the frame of a header and a sequence of raw rows, labelled 0, 1, ...
ReadCsv(header, rs) ==
    Frame(header,
          [i \in 1..Len(rs) |-> i - 1],
          [i \in 1..Len(rs) |-> [j \in 1..Len(header) |-> CsvCell(header[j], rs[i])]])

\* the sequences of 1..MaxRows rows of a catalogue
RowSeqs(catalogue) == UNION {[1..n -> Range(catalogue)] : n \in 1..MaxRows}

\* the files the function harness reads, all with the canonical header
AllFiles == {ReadCsv(Headers[1], rs) : rs \in RowSeqs(RawRows)}

\* the files the user uploads: every header, rows of the first three of the catalogue
Uploads == {ReadCsv(h, rs) : h \in Range(Headers), rs \in RowSeqs(SubSeq(RawRows, 1, 3))}

(***************************************************************************)
(* update_content.  The response is what one run of the callback returned  *)
(* (the six outputs; `updates` is FALSE when all but the content are        *)
(* dash.no_update) or the exception it raised.                              *)
(***************************************************************************)
Return(style, options, start, end, content, cards) ==
    [raised |-> FALSE, exc |-> <<>>, updates |-> TRUE, style |-> style,
     options |-> options, start_date |-> start, end_date |-> end,
     content |-> content, cards |-> cards]
ReturnContent(content) ==
    [raised |-> FALSE, exc |-> <<>>, updates |-> FALSE, style |-> "no_update",
     options |-> <<>>, start_date |-> None, end_date |-> None,
     content |-> content, cards |-> <<>>]
Raised(exc) ==
    [raised |-> TRUE, exc |-> exc, updates |-> FALSE, style |-> "no_update",
     options |-> <<>>, start_date |-> None, end_date |-> None,
     content |-> no_update, cards |-> <<>>]

\* a table builder's result as the callback's response
Reply(view) == IF view.ok THEN ReturnContent(view.val) ELSE Raised(view.exc)

\* the except branch: f"Error: {str(e)}"
ErrorReturn(exc) ==
    Return("none", <<>>, None, None, Div(<<"Error: ", exc[2]>>), <<>>)

\* sorted(df['country_name'].unique())
CountryOptions(df) == Sorted({Cell(df, i, "country_name") : i \in 1..Len(df.rows)})

\* the try block of the upload branch after process_uploaded_file returned df
UploadReturn(df) ==
    IF ~create_product_summary_cards(df).ok
    THEN ErrorReturn(create_product_summary_cards(df).exc)
    ELSE Return("block", CountryOptions(df), MinDate(df), MaxDate(df),
                create_data_table(df).val, create_product_summary_cards(df).val)

\* the view of the tabs branch
TabView(tab, df) ==
    CASE tab = "data-table-tab" -> create_data_table(df)
      [] tab = "campaign-summary-tab" -> create_summary_table(df)
      [] tab = "cost-analysis-tab" -> create_cost_analysis_table(df)
      [] OTHER -> create_country_analysis_table(df)

\* the view of the filter branch
FilterView(tab, filtered_data) ==
    IF tab = "data-table-tab"
    THEN create_data_table(filtered_data)
    ELSE create_summary_table(filtered_data)

Tabs == {"data-table-tab", "campaign-summary-tab", "cost-analysis-tab",
         "country-analysis-tab"}
FilterTriggers == {"filter-button", "filter-country", "filter-campaign-type", "filter-date"}

\* the values the user can give the filters
CountryValues == {Some(<<Chars("United States")>>)}
CampaignTypeValues == {Some(<<<<"Non-Commercial">>>>)}
DateValues == {Some(Dates[2])}

Init ==
    /\ data = None
    /\ active_tab = "data-table-tab"
    /\ filter_country = None
    /\ filter_campaign_type = None
    /\ start_date = None
    /\ end_date = None
    /\ trigger = "none"
    /\ response = ReturnContent(no_update)
    /\ fn = "none"
    /\ out = <<>>
    /\ last_success = None

\* upload-data fires with no contents
UploadNone ==
    /\ trigger' = "upload-data"
    /\ response' = Return("none", <<>>, None, None, Div(<<"Please upload a file.">>), <<>>)
    /\ start_date' = None
    /\ end_date' = None
    /\ UNCHANGED <<data, active_tab, filter_country, filter_campaign_type, fn, out,
                   last_success>>

\* the upload branch on a file: whether `data = df` was reached, the frame
\* assigned and the response
UploadOutcome(contents) ==
    LET r == process_uploaded_file(contents)
    IN  IF r.ok
        THEN [assigned |-> TRUE, df |-> r.val, response |-> UploadReturn(r.val)]
        ELSE [assigned |-> FALSE, df |-> contents, response |-> ErrorReturn(r.exc)]

UploadOutcomes == {UploadOutcome(contents) : contents \in Uploads}

\* the upload branch returned its success tuple
UploadSucceeded(r) == ~r.raised /\ r.updates /\ r.style = "block"

\* the upload branch with outcome o
UploadStep(o) ==
    /\ trigger' = "upload-data"
    /\ data' = IF o.assigned THEN Some(o.df) ELSE data
    /\ response' = o.response
    /\ start_date' = o.response.start_date
    /\ end_date' = o.response.end_date
    /\ UNCHANGED <<active_tab, filter_country, filter_campaign_type, fn, out>>

\* upload-data fires with a file
Upload ==
    \E o \in UploadOutcomes : UploadStep(o) /\ UNCHANGED last_success

\* the same, recording in last_success the columns and records that a
\* successful upload returned
UploadHist ==
    \E o \in UploadOutcomes :
        /\ UploadStep(o)
        /\ last_success' = IF UploadSucceeded(o.response)
                           THEN Some([columns |-> o.response.content.columns,
                                      rows |-> o.response.content.rows])
                           ELSE last_success

\* the user selects another tab
TabSelect ==
    \E tab \in Tabs \ {active_tab} :
        /\ active_tab' = tab
        /\ trigger' = "tabs"
        /\ response' = IF data = None
                       THEN ReturnContent(Div(<<"No data available.">>))
                       ELSE Reply(TabView(tab, data[1]))
        /\ UNCHANGED <<data, filter_country, filter_campaign_type,
                       start_date, end_date, fn, out, last_success>>

\* mutant: the filter branch without its `data is None` guard
FilterReturn_NoGuard ==
    /\ response' = IF data = None
                   THEN Raised(<<"AttributeError",
                                 "'NoneType' object has no attribute 'copy'">>)
                   ELSE Reply(FilterView(active_tab,
                            apply_filters(data[1], filter_country', filter_campaign_type',
                                          start_date', end_date')))
    /\ UNCHANGED <<data, active_tab, fn, out, last_success>>

\* mutant: the filter branch stores the filtered frame in `data`
FilterReturn_Assign ==
    /\ response' = IF data = None
                   THEN ReturnContent(no_update)
                   ELSE Reply(FilterView(active_tab,
                            apply_filters(data[1], filter_country', filter_campaign_type',
                                          start_date', end_date')))
    /\ data' = IF data = None
               THEN None
               ELSE Some(apply_filters(data[1], filter_country', filter_campaign_type',
                                       start_date', end_date'))
    /\ UNCHANGED <<active_tab, fn, out, last_success>>

\* the filter branch, run with the filter values of the next state
FilterReturn ==
    /\ response' = IF data = None
                   THEN ReturnContent(no_update)
                   ELSE Reply(FilterView(active_tab,
                            apply_filters(data[1], filter_country', filter_campaign_type',
                                          start_date', end_date')))
    /\ UNCHANGED <<data, active_tab, fn, out, last_success>>

\* the Apply Filters button is clicked
FilterButton ==
    /\ trigger' = "filter-button"
    /\ UNCHANGED <<filter_country, filter_campaign_type, start_date, end_date>>
    /\ FilterReturn

FilterCountry ==
    \E value \in CountryValues \ {filter_country} :
        /\ trigger' = "filter-country"
        /\ filter_country' = value
        /\ UNCHANGED <<filter_campaign_type, start_date, end_date>>
        /\ FilterReturn

FilterCampaignType ==
    \E value \in CampaignTypeValues \ {filter_campaign_type} :
        /\ trigger' = "filter-campaign-type"
        /\ filter_campaign_type' = value
        /\ UNCHANGED <<filter_country, start_date, end_date>>
        /\ FilterReturn

FilterDate ==
    \E value \in DateValues :
        /\ trigger' = "filter-date"
        /\ \/ start_date' = value /\ start_date # value /\ end_date' = end_date
           \/ end_date' = value /\ end_date # value /\ start_date' = start_date
        /\ UNCHANGED <<filter_country, filter_campaign_type>>
        /\ FilterReturn

Next ==
    \/ UploadNone
    \/ Upload
    \/ TabSelect
    \/ FilterButton
    \/ FilterCountry
    \/ FilterCampaignType
    \/ FilterDate

Spec == Init /\ [][Next]_vars

(***************************************************************************)
(* The callback with the history of uploads recorded.                      *)
(***************************************************************************)
NextHist ==
    \/ UploadNone
    \/ UploadHist
    \/ TabSelect
    \/ FilterButton
    \/ FilterCountry
    \/ FilterCampaignType
    \/ FilterDate

SpecHist == Init /\ [][NextHist]_vars

(***************************************************************************)
(* The function harness: apply_filters and the table builders applied to   *)
(* every enriched file of AllFiles under every filter value.               *)
(***************************************************************************)
Enriched == {process_uploaded_file(contents).val : contents \in AllFiles}

FnCountryValues ==
    {None, Some(<<>>), Some(<<Chars("Unknown")>>), Some(<<Chars("United States")>>),
     Some(<<Chars("United Kingdom"), Chars("Unknown")>>)}
FnCampaignTypeValues ==
    {None, Some(<<>>), Some(<<<<"Commercial">>>>), Some(<<<<"Non-Commercial">>>>),
     Some(<<<<"Commercial">>, <<"Non-Commercial">>>>)}
FnStartValues == {None, Some(Dates[1]), Some(Dates[2])}
FnEndValues == {None, Some(Dates[2]), Some(Dates[1])}

InitFn ==
    /\ data \in {Some(df) : df \in Enriched}
    /\ active_tab = "data-table-tab"
    /\ filter_country \in FnCountryValues
    /\ filter_campaign_type \in FnCampaignTypeValues
    /\ start_date \in FnStartValues
    /\ end_date \in FnEndValues
    /\ trigger = "none"
    /\ response = ReturnContent(no_update)
    /\ fn = "none"
    /\ out = <<>>
    /\ last_success = None

Call_apply_filters ==
    /\ fn = "none"
    /\ fn' = "apply_filters"
    /\ out' = apply_filters(data[1], filter_country, filter_campaign_type,
                            start_date, end_date)
    /\ UNCHANGED <<data, ui, trigger, response, last_success>>

Call_create_cost_analysis_table ==
    /\ fn = "none"
    /\ fn' = "create_cost_analysis_table"
    /\ out' = create_cost_analysis_table(data[1])
    /\ UNCHANGED <<data, ui, trigger, response, last_success>>

Call_create_country_analysis_table ==
    /\ fn = "none"
    /\ fn' = "create_country_analysis_table"
    /\ out' = create_country_analysis_table(data[1])
    /\ UNCHANGED <<data, ui, trigger, response, last_success>>

NextFn ==
    \/ Call_apply_filters
    \/ Call_create_cost_analysis_table
    \/ Call_create_country_analysis_table

FnSpec == InitFn /\ [][NextFn]_vars

(***************************************************************************)
(* The upload harness: the upload branch of update_content applied once to  *)
(* every file of IngestFiles, with and without a dataset already stored;    *)
(* `out` keeps the file that was uploaded.                                   *)
(***************************************************************************)
\* the headers of Headers and two more: two columns that mention a campaign
\* and are not in column_mapping, and one of column_mapping next to one that
\* only mentions a campaign
IngestHeaders ==
    Headers \o
    << <<"customer_external_id", "My Campaign", "dispatched_at", "delivered_at",
         "Campaign ID">>,
       <<"My Campaign", "Campaign", "customer_external_id", "dispatched_at">> >>

IngestFiles ==
    {ReadCsv(h, rs) : h \in Range(IngestHeaders), rs \in RowSeqs(SubSeq(RawRows, 1, 3))}

\* the dataset of an earlier upload
StoredBefore == process_uploaded_file(ReadCsv(Headers[1], <<RawRows[1]>>)).val

InitIngest ==
    /\ data \in {None, Some(StoredBefore)}
    /\ active_tab = "data-table-tab"
    /\ filter_country = None
    /\ filter_campaign_type = None
    /\ start_date = None
    /\ end_date = None
    /\ trigger = "none"
    /\ response = ReturnContent(no_update)
    /\ fn = "none"
    /\ out = <<>>
    /\ last_success = None

\* update_content triggered by upload-data with a file of IngestFiles
Call_update_content ==
    /\ fn = "none"
    /\ \E contents \in IngestFiles :
           LET o == UploadOutcome(contents)
           IN  /\ fn' = "update_content"
               /\ out' = contents
               /\ trigger' = "upload-data"
               /\ data' = IF o.assigned THEN Some(o.df) ELSE data
               /\ response' = o.response
               /\ start_date' = o.response.start_date
               /\ end_date' = o.response.end_date
    /\ UNCHANGED <<active_tab, filter_country, filter_campaign_type, last_success>>

\* the values of a campaign_name cell the classifier is applied to: a missing
\* value, the empty name and names around each keyword
CampaignNames ==
    {NaN, <<>>, <<"G", "E", "M", "S", "_", "B", "O", "N", "U", "S">>,
     <<"Q", "1", "_", "G", "E", "M", "S", "_", "B", "O", "N", "U", "S">>,
     <<"G", "E", "M", "S", "_", "B", "O", "N", "U", "S", " ", "2">>,
     <<"M", "y", " ", "G", "E", "M", "S", "_", "B", "O", "N", "U", "S", "_", "x">>,
     <<"g", "e", "m", "s">>, <<"G", "E", "_", "M">>,
     <<"G", "i", "f", "t", " ", "e", "m">>, <<"t", "o", "p", "_", "u", "p">>,
     <<"t", "o", "p", " ", "u", "p">>, <<"T", "o", "p", "U", "p">>,
     <<"T", "o", "p", "_", "_", "U", "p">>,
     <<"T", "O", "P", "_", "U", "P", "_", "M", "A", "Y">>,
     <<"S", "t", "o", "p", " ", "U", "p", "g", "r", "a", "d", "e">>,
     <<"t", "o", " ", "p", " ", "u", "p">>, <<"d", "t">>, <<"D", "_", "T">>,
     <<"M", "i", "d", "t", "o", "w", "n">>,
     <<"D", "T", "_", "P", "u", "s", "h">>, <<"C", "P", "C">>,
     <<"c", "_", "p", "c">>, <<"A", "u", "t", "o", "_", "C", "P", "C">>,
     <<"A", "u", "t", "o", "m", "a", "t", "i", "o", "n">>,
     <<"a", "u", "t", "o">>,
     <<"a", "u", "t", "o", "m", "a", "t", "i", "o", " ", "n">>,
     <<"P", "r", "o", "m", "o">>, <<"S", "a", "l", "e">>, <<"_">>,
     <<"n", "a", "n">>}

\* the lambda of df['campaign_name'].apply on one name of CampaignNames
Call_is_commercial_campaign ==
    /\ fn = "none"
    /\ \E campaign_name \in CampaignNames :
           /\ fn' = "is_commercial_campaign"
           /\ out' = [campaign_name |-> campaign_name,
                      campaign_type |-> CampaignType(campaign_name)]
    /\ UNCHANGED <<data, ui, trigger, response, last_success>>

NextIngest ==
    \/ Call_update_content
    \/ Call_is_commercial_campaign

IngestSpec == InitIngest /\ [][NextIngest]_vars

(***************************************************************************)
(* Properties of update_content.                                           *)
(***************************************************************************)
\* the response is the except branch's message, "Error: ..."
IsErrorDescriptor(r) ==
    /\ ~r.raised
    /\ r.content.kind = "Div"
    /\ Len(r.content.text) = 2
    /\ r.content.text[1] = "Error: "

\* C1: an upload answered with the error descriptor leaves the dataset as it
\* was before the upload (absent if it was absent).
C1_ErrorLeavesDataset ==
    [][(trigger' = "upload-data" /\ IsErrorDescriptor(response')) => data' = data]_vars

C3_OnlyUploadWrites ==
    [][trigger' # "upload-data" => data' = data]_vars

\* C3 witness: a filter event returned a proper part of the dataset's records
\* and the dataset still holds them all
C3_Witness ==
    /\ data # None
    /\ trigger \in FilterTriggers
    /\ active_tab = "data-table-tab"
    /\ ~response.raised
    /\ response.content.kind = "DataTable"
    /\ Len(response.content.rows) < Len(data[1].rows)

\* C4: once an upload has succeeded, the dataset is exactly the columns and
\* records of the most recent successful upload.
C4_DatasetIsLastSuccess ==
    last_success # None =>
        /\ data # None
        /\ data[1].columns = last_success[1].columns
        /\ data[1].rows = last_success[1].rows

\* C5: after a filter event on an existing dataset, the table returned is the
\* view of the active tab computed over the filtered dataset.
C5_FilterShowsActiveTab ==
    (data # None /\ trigger \in FilterTriggers) =>
        response = Reply(TabView(active_tab,
                       apply_filters(data[1], filter_country, filter_campaign_type,
                                     start_date, end_date)))

\* the columns the view of a tab reads
RequiredCols(tab) ==
    CASE tab = "data-table-tab" -> <<>>
      [] tab = "campaign-summary-tab" -> <<"campaign_name">> \o SummaryCols
      [] tab = "cost-analysis-tab" -> <<"campaign_type", "campaign_name", "delivered_at">>
      [] OTHER -> <<"country_name">> \o CountryCols

\* C7: a tab-select event on a dataset lacking columns the selected view needs
\* is answered with a descriptor naming the absent columns; nothing is raised
\* and no table is returned.
C7_MissingColumnsReported ==
    (data # None /\ trigger = "tabs"
       /\ MissingCols(data[1], RequiredCols(active_tab)) # <<>>) =>
        /\ ~response.raised
        /\ response.content.kind = "Div"
        /\ Range(MissingCols(data[1], RequiredCols(active_tab)))
               \subseteq Range(response.content.text)

Satisfying(df, country, campaign_type, start, end) ==
    {i \in 1..Len(df.rows) :
        /\ (country # None /\ country[1] # <<>>) =>
               \E k \in 1..Len(country[1]) : Cell(df, i, "country_name") = country[1][k]
        /\ (campaign_type # None /\ campaign_type[1] # <<>>) =>
               \E k \in 1..Len(campaign_type[1]) :
                   Cell(df, i, "campaign_type") = campaign_type[1][k]
        /\ (start # None /\ end # None) =>
               /\ DayNum(start[1]) <= DayNum(Cell(df, i, "dispatched_at")[1])
               /\ DayNum(Cell(df, i, "dispatched_at")[1]) <= DayNum(end[1])}

\* C6: apply_filters returns exactly the records that satisfy every supplied
\* filter (country, campaign type, inclusive date range by calendar date), in
\* their original order; an absent or empty filter excludes nothing; and the
\* country filter followed by the campaign-type filter equals both at once.
C6_FilterIsConjunction ==
    fn = "apply_filters" =>
        LET df == data[1]
            keep == Satisfying(df, filter_country, filter_campaign_type,
                               start_date, end_date)
        IN  /\ out.columns = df.columns
            /\ Len(out.rows) = Cardinality(keep)
            /\ Len(out.index) = Len(out.rows)
            /\ \A k \in 1..Len(out.rows) :
                   \E i \in keep : out.index[k] = df.index[i] /\ out.rows[k] = df.rows[i]
            /\ \A k \in 1..Len(out.rows) : \A l \in 1..Len(out.rows) :
                   k < l => out.index[k] < out.index[l]
            /\ apply_filters(apply_filters(df, filter_country, None, None, None),
                             None, filter_campaign_type, None, None)
                 = apply_filters(df, filter_country, filter_campaign_type, None, None)

\* C6 witness: all three filters supplied, some records excluded, and a record
\* dispatched late on the end date retained
C6_Witness ==
    /\ fn = "apply_filters"
    /\ Truthy(filter_country)
    /\ Truthy(filter_campaign_type)
    /\ start_date # None
    /\ end_date # None
    /\ Len(out.rows) < Len(data[1].rows)
    /\ \E k \in 1..Len(out.rows) :
           /\ Cell(out, k, "dispatched_at")[1] = end_date[1]
           /\ Cell(out, k, "dispatched_at")[2] # Times[1]

\* the Non-Commercial records of df
NonCommercial(df) ==
    {i \in 1..Len(df.rows) : Cell(df, i, "campaign_type") = <<"Non-Commercial">>}

\* the delivered records of df among the Non-Commercial ones of a campaign
DeliveredOf(df, name) ==
    {i \in NonCommercial(df) :
        Cell(df, i, "campaign_name") = name /\ ~IsNull(Cell(df, i, "delivered_at"))}

\* C9: the cost table has one row per distinct Non-Commercial campaign, with
\* its count of delivered records and 0.04 USD per delivered record, then one
\* final Total row holding the sum of the counts and 0.04 USD times that sum;
\* with no Non-Commercial record it is the Total row alone, 0 and $0.00.
C9_CostTable ==
    fn = "create_cost_analysis_table" =>
        LET df == data[1]
            names == {Cell(df, i, "campaign_name") : i \in NonCommercial(df)}
            rows == out.val.rows
            n == Len(rows)
        IN  /\ out.ok
            /\ n = Cardinality(names) + 1
            /\ {rows[g][1] : g \in 1..(n - 1)} = names
            /\ \A g \in 1..(n - 1) :
                   /\ rows[g][2] = Cardinality(DeliveredOf(df, rows[g][1]))
                   /\ rows[g][3] = FormatUSD(CostPerMessage * rows[g][2])
            /\ rows[n][1] = Chars("Total")
            /\ rows[n][2] = Cardinality({i \in NonCommercial(df) :
                                            ~IsNull(Cell(df, i, "delivered_at"))})
            /\ rows[n][2] = SumCol(rows, 2, n - 1)
            /\ CostRows(df)[n][3] = CostPerMessage * rows[n][2]
            /\ rows[n][3] = FormatUSD(CostPerMessage * rows[n][2])
            /\ NonCommercial(df) = {} =>
                   rows = << <<Chars("Total"), 0, <<"$", "0", ".", "0", "0">>>> >>

\* C9 witness: a cost table of a dataset holding a Commercial record and a
\* delivered Non-Commercial one
C9_Witness ==
    /\ fn = "create_cost_analysis_table"
    /\ out.ok
    /\ Len(out.val.rows) >= 2
    /\ out.val.rows[1][2] >= 1
    /\ NonCommercial(data[1]) # 1..Len(data[1].rows)

\* the rates a zero divisor may show
ZeroDivisionConvention == {<<"0", "%">>, <<"0", ".", "0", "%">>, <<"N/A">>}

\* C10: in the country table a group with a zero divisor (no dispatched record
\* for Delivery Rate, no delivered record for Read Rate) does not raise and
\* shows "0%" or "N/A".
C10_ZeroDivisionConvention ==
    fn = "create_country_analysis_table" =>
        /\ out.ok
        /\ \A g \in 1..Len(out.val.rows) :
               /\ out.val.rows[g][2] = 0 => out.val.rows[g][7] \in ZeroDivisionConvention
               /\ out.val.rows[g][3] = 0 => out.val.rows[g][8] \in ZeroDivisionConvention

(***************************************************************************)
(* Properties of the upload pipeline.                                      *)
(***************************************************************************)
\* the name a column has after the rename table: its entry's target if the
\* table has an entry for it, else the name itself
RenameTarget(c) ==
    IF \E k \in 1..Len(column_mapping) : column_mapping[k][1] = c
    THEN column_mapping[CHOOSE k \in 1..Len(column_mapping) :
                            column_mapping[k][1] = c][2]
    ELSE c

\* the column name contains 'campaign', whatever the case of its letters
MentionsCampaign(c) ==
    \E k \in 0..(Len(Chars(c)) - 8) :
        \A m \in 1..8 : LowerChar(Chars(c)[k + m]) = Chars("campaign")[m]

\* a campaign_name column can be resolved among the columns cols of a file
Resolvable(cols) ==
    \E j \in 1..Len(cols) :
        RenameTarget(cols[j]) = "campaign_name" \/ MentionsCampaign(RenameTarget(cols[j]))

\* the position of the column resolved as campaign_name
CampaignPos(cols) ==
    IF \E j \in 1..Len(cols) : RenameTarget(cols[j]) = "campaign_name"
    THEN CHOOSE j \in 1..Len(cols) : RenameTarget(cols[j]) = "campaign_name"
    ELSE CHOOSE j \in 1..Len(cols) :
             /\ MentionsCampaign(RenameTarget(cols[j]))
             /\ \A k \in 1..(j - 1) : ~MentionsCampaign(RenameTarget(cols[k]))

\* the columns of a file after the rename table and the resolution
ExpectedColumns(cols) ==
    [j \in 1..Len(cols) |->
        IF j = CampaignPos(cols) THEN "campaign_name" ELSE RenameTarget(cols[j])]

\* C11: after the rename table is applied to the columns present (none is
\* created), campaign_name is the column the table gave that name or, if there
\* is none, the first column in input order whose name contains 'campaign'
\* case-insensitively; if there is no such column either, the upload is
\* answered with the schema error's message and the dataset is unchanged.
C11_CampaignNameResolved ==
    [][fn' = "update_content" =>
          IF Resolvable(out'.columns)
          THEN /\ data' # None
               /\ SubSeq(data'[1].columns, 1, Len(out'.columns))
                      = ExpectedColumns(out'.columns)
               /\ \A k \in 1..Len(data'[1].rows) :
                      Cell(data'[1], k, "campaign_name")
                          = out'.rows[data'[1].index[k] + 1][CampaignPos(out'.columns)]
          ELSE /\ response' = Return("none", <<>>, None, None,
                       Div(<<"Error: ",
                             "Could not find campaign name column in the CSV file">>),
                       <<>>)
               /\ data' = data]_vars

\* C11 witness: a file with no column that mentions a campaign was uploaded
\* over a stored dataset, the error message was returned and the dataset kept
C11_Witness ==
    /\ fn = "update_content"
    /\ ~Resolvable(out.columns)
    /\ data = Some(StoredBefore)
    /\ response.content.kind = "Div"
    /\ response.content.text[2] = "Could not find campaign name column in the CSV file"

\* the keywords of the classifier
Keywords ==
    {<<"c", "p", "c">>, <<"d", "t">>, <<"g", "e", "m">>, <<"t", "o", "p", " ", "u", "p">>,
     <<"t", "o", "p", "_", "u", "p">>, <<"t", "o", "p", "u", "p">>, <<"a", "u", "t", "o", "m", "a", "t", "i", "o", "n">>}

\* the text of a name: a missing name reads 'nan'
NameText(v) == IF v = NaN THEN <<"n", "a", "n">> ELSE v

\* the name lower-cased with its underscores replaced by spaces
Normalised(s) ==
    [k \in 1..Len(s) |-> IF s[k] = "_" THEN " " ELSE LowerChar(s[k])]

\* the word w occurs in s
OccursIn(w, s) ==
    \E k \in 0..(Len(s) - Len(w)) : \A m \in 1..Len(w) : s[k + m] = w[m]

\* C12: the classifier answers for every name, Commercial exactly when the
\* lower-cased name with underscores replaced by spaces contains one of the
\* keywords cpc, dt, gem, top up, top_up, topup, automation, and
\* Non-Commercial otherwise; a name containing 'GEMS_BONUS' is Commercial, and
\* so are 'top_up' and 'top up'.
C12_ClassifierByKeywords ==
    fn = "is_commercial_campaign" =>
        LET text == NameText(out.campaign_name)
        IN  /\ out.campaign_type \in {<<"Commercial">>, <<"Non-Commercial">>}
            /\ out.campaign_type = <<"Commercial">>
                   <=> \E w \in Keywords : OccursIn(w, Normalised(text))
            /\ OccursIn(<<"G", "E", "M", "S", "_", "B", "O", "N", "U", "S">>, text)
                   => out.campaign_type = <<"Commercial">>
            /\ text \in {<<"t", "o", "p", "_", "u", "p">>, <<"t", "o", "p", " ", "u", "p">>}
                   => out.campaign_type = <<"Commercial">>

\* C12 witness: a longer name containing 'GEMS_BONUS' was classified Commercial
C12_Witness ==
    /\ fn = "is_commercial_campaign"
    /\ out.campaign_name # NaN
    /\ Len(out.campaign_name) > 10
    /\ OccursIn(<<"G", "E", "M", "S", "_", "B", "O", "N", "U", "S">>, out.campaign_name)
    /\ out.campaign_type = <<"Commercial">>

(***************************************************************************)
(* Properties of a tab selection that follows a filter event.              *)
(***************************************************************************)
\* C13: a tab-select event that follows a filter event on an existing dataset,
\* the filter values unchanged, returns the selected tab's view computed over
\* the filtered dataset.
C13_TabShowsFilteredView ==
    [][(data # None /\ trigger \in FilterTriggers /\ trigger' = "tabs") =>
           response' = Reply(TabView(active_tab',
                           apply_filters(data[1], filter_country, filter_campaign_type,
                                         start_date, end_date)))]_vars

====
